---- MODULE Spec2Model ----
(***************************************************************************)
(* Model of the Technical Design Assistant front end: the App component    *)
(* (session state, mergeParameters, the upload / project-selection /       *)
(* continue-as-new handlers, resetApp), the MondayProjectSearch component *)
(* that drives the handlers, and the ParameterValidator component          *)
(* (cleanExtractedValue, formatDateForMonday, the projection effect,       *)
(* editing and submitting).                                                *)
(*                                                                         *)
(* JavaScript strings are tuples of one-character strings, so that trim    *)
(* and toLowerCase are computed and not assumed.  Object keys and the      *)
(* provenance tags are compared only by identity in the code and are       *)
(* TLA+ strings.  A Parameter object is a function from its own keys to    *)
(* strings.  Where the code holds a string or null (or undefined) the      *)
(* model holds a tuple, null and undefined being tuples that are no        *)
(* strings; where the code holds an object or null (or undefined) the      *)
(* model holds a function on strings, nullObject being one that is no      *)
(* Parameter object, no ParameterSource and no SearchResults.              *)
(***************************************************************************)
EXTENDS Integers, Sequences, FiniteSets, TLC

\* ------------------------------------------------------------------------
\* Bounds of the model
\* ------------------------------------------------------------------------

\* the number of workflow requests that may be outstanding at once
MaxInFlight == 2

\* the length of the strings cleanExtractedValue is called with on its own
MaxValueLen == 3

\* the number of times cleanExtractedValue is applied to its own result
MaxApplications == 2

\* the number of calls of the date functions in a row
MaxDateCalls == 3

\* the number of sockets io() creates
MaxSockets == 3

\* the number of entries of the chat history
MaxChatEntries == 4

\* ------------------------------------------------------------------------
\* JavaScript values
\* ------------------------------------------------------------------------

null == <<"null">>

undefined == <<"undefined">>

\* null and undefined where the other values are objects
nullObject == [null |-> <<"null">>]

\* const TAPEREDPLUS_ASSIGNMENT_TEXT = "To be assigned by TaperedPlus"
TAPEREDPLUS_ASSIGNMENT_TEXT == <<"T","o"," ","b","e"," ","a","s","s","i","g","n","e","d"," ","b","y"," ","T","a","p","e","r","e","d","P","l","u","s">>

\* the two values of enquiryType, also written into "Reason for Change"
NewEnquiry == <<"N","e","w"," ","E","n","q","u","i","r","y">>

Amendment == <<"A","m","e","n","d","m","e","n","t">>

\* the radio value of "None of the above"
none == <<"n","o","n","e">>

\* the provenance tags of ParameterSource
EmailContent == "Email Content"

MondayCRM == "Monday CRM"

BusinessRule == "Business Rule"

\* String.prototype.toLowerCase on the letters A-Z
UpperLetters == <<"A","B","C","D","E","F","G","H","I","J","K","L","M","N","O","P","Q","R","S","T","U","V","W","X","Y","Z">>

LowerLetters == <<"a","b","c","d","e","f","g","h","i","j","k","l","m","n","o","p","q","r","s","t","u","v","w","x","y","z">>

toLowerCaseChar(c) ==
  IF \E i \in 1..Len(UpperLetters) : UpperLetters[i] = c
  THEN LowerLetters[CHOOSE i \in 1..Len(UpperLetters) : UpperLetters[i] = c]
  ELSE c

toLowerCase(s) == [i \in 1..Len(s) |-> toLowerCaseChar(s[i])]

\* the characters String.prototype.trim removes
WhiteSpace == {" ", "\t", "\n", "\r"}

RECURSIVE trimStart(_)
trimStart(s) ==
  IF Len(s) > 0 /\ s[1] \in WhiteSpace THEN trimStart(Tail(s)) ELSE s

RECURSIVE trimEnd(_)
trimEnd(s) ==
  IF Len(s) > 0 /\ s[Len(s)] \in WhiteSpace
  THEN trimEnd(SubSeq(s, 1, Len(s) - 1))
  ELSE s

trim(s) == trimEnd(trimStart(s))

\* String.prototype.endsWith
endsWith(s, suffix) ==
  /\ Len(s) >= Len(suffix)
  /\ SubSeq(s, Len(s) - Len(suffix) + 1, Len(s)) = suffix

\* obj[key]: undefined for a key the object does not have
Get(obj, key) == IF key \in DOMAIN obj THEN obj[key] ELSE undefined

\* { ...obj }: null and undefined spread to nothing
Spread(obj) == IF obj = nullObject THEN <<>> ELSE obj

\* { ...obj, ...over }: the keys of over replace those of obj
Assign(obj, over) ==
  [k \in (DOMAIN obj) \cup (DOMAIN over) |->
     IF k \in DOMAIN over THEN over[k] ELSE obj[k]]

\* ------------------------------------------------------------------------
\* mergeParameters
\* ------------------------------------------------------------------------

overridableParameters ==
  { "Email Subject", "Date Received", "Hour Received", "Target U-Value",
    "Target Min U-Value", "Fall of Tapered", "Tapered Insulation", "Decking" }

\* const clean = (v?: string) => v?.trim().toLowerCase()
clean(v) == IF v = undefined THEN undefined ELSE toLowerCase(trim(v))

isMissing_NoTrim(v) ==
  IF v = undefined \/ v = <<>> THEN TRUE
  ELSE toLowerCase(v) \in
         { <<"n","o","t"," ","f","o","u","n","d">>,
           <<"n","o","t"," ","p","r","o","v","i","d","e","d">>,
           <<"t","o"," ","b","e"," ","a","s","s","i","g","n","e","d"," ","b","y"," ","t","a","p","e","r","e","d","p","l","u","s">> }

isMissing(v) ==
  IF v = undefined \/ v = <<>> THEN TRUE
  ELSE toLowerCase(trim(v)) \in
         { <<"n","o","t"," ","f","o","u","n","d">>,
           <<"n","o","t"," ","p","r","o","v","i","d","e","d">>,
           <<"t","o"," ","b","e"," ","a","s","s","i","g","n","e","d"," ","b","y"," ","t","a","p","e","r","e","d","p","l","u","s">> }

\* the condition under which the forEach body assigns merged[key] = value
emailWins_SubjectCompared(monday, email, key) ==
  /\ key \in overridableParameters
  /\ ~isMissing(email[key])
  /\ clean(email[key]) # clean(Get(monday, key))

emailWins_CaseSensitive(monday, email, key) ==
  /\ key \in overridableParameters
  /\ \/ key = "Email Subject" /\ ~isMissing(email[key])
     \/ /\ key # "Email Subject"
        /\ ~isMissing(email[key])
        /\ trim(email[key]) #
             (IF key \in DOMAIN monday THEN trim(monday[key]) ELSE undefined)

emailWins_AnyKey(monday, email, key) ==
  \/ key = "Email Subject" /\ ~isMissing(email[key])
  \/ /\ key # "Email Subject"
     /\ ~isMissing(email[key])
     /\ clean(email[key]) # clean(Get(monday, key))

emailWins(monday, email, key) ==
  /\ key \in overridableParameters
  /\ \/ key = "Email Subject" /\ ~isMissing(email[key])
     \/ /\ key # "Email Subject"
        /\ ~isMissing(email[key])
        /\ clean(email[key]) # clean(Get(monday, key))

mergeParameters_NullTagsEmail(monday, email) ==
  IF email = nullObject
  THEN [merged |-> monday, sources |-> [k \in DOMAIN monday |-> EmailContent]]
  ELSE LET won == {k \in DOMAIN email : emailWins(monday, email, k)}
       IN [merged  |-> [k \in (DOMAIN monday) \cup won |->
                          IF k \in won THEN email[k] ELSE monday[k]],
           sources |-> [k \in (DOMAIN monday) \cup won |->
                          IF k \in won THEN EmailContent ELSE MondayCRM]]

mergeParameters_TagsBaseKeysOnly(monday, email) ==
  IF email = nullObject
  THEN [merged |-> monday, sources |-> [k \in DOMAIN monday |-> MondayCRM]]
  ELSE LET won == {k \in DOMAIN email : emailWins(monday, email, k)}
       IN [merged  |-> [k \in (DOMAIN monday) \cup won |->
                          IF k \in won THEN email[k] ELSE monday[k]],
           sources |-> [k \in DOMAIN monday |->
                          IF k \in won THEN EmailContent ELSE MondayCRM]]

mergeParameters(monday, email) ==
  IF email = nullObject
  THEN [merged |-> monday, sources |-> [k \in DOMAIN monday |-> MondayCRM]]
  ELSE LET won == {k \in DOMAIN email : emailWins(monday, email, k)}
       IN [merged  |-> [k \in (DOMAIN monday) \cup won |->
                          IF k \in won THEN email[k] ELSE monday[k]],
           sources |-> [k \in (DOMAIN monday) \cup won |->
                          IF k \in won THEN EmailContent ELSE MondayCRM]]

\* ------------------------------------------------------------------------
\* State
\* ------------------------------------------------------------------------

VARIABLES
  \* useState of App
  isProcessing, extractedParams, extractedText, emailParams, projectName,
  showMondaySearch, enquiryType, isLoadingResults, currentFile,
  processingStage, paramSources, showParameterValidator, originalEmailFile,
  validatorParams,
  \* useState of MondayProjectSearch (the instance that is mounted)
  isSearching, searchResults, selectedProjectId, isRetrievingDetails,
  \* the fetch calls of the session workflow that have not completed, in
  \* the order they were issued, each with the values its handler closed over
  inflight,
  \* the messages the last step passed to window.alert and to console.error
  alerts, consoleErrors,
  \* the arguments and the result of a direct call of mergeParameters
  mergeInput, mergeOutput,
  \* useState of ParameterValidator (the instance that is mounted)
  parameters, isSubmitting, error, success,
  \* the calls of handleSubmit that have not completed, each with the
  \* itemData it built and whether its instance is still mounted
  submissions,
  \* the argument of cleanExtractedValue called on its own and the results
  \* of applying it again and again
  normalizeArg, normalizeResults,
  \* the argument of the date functions called on their own and the calls
  \* made so far, each applied to the result of the one before
  dateArg, dateCalls,
  \* a component that calls useWebSocket: whether it is mounted and the
  \* jobId it passes
  hookMounted, jobId,
  \* useRef and useState of useWebSocket (the instance that is mounted)
  socketRef, connected, reconnectTimeoutRef,
  \* the sockets io() has returned, the timers setTimeout has returned (a
  \* ref holds the position of its socket or timer, 0 for null) and the
  \* socket whose cleanup function the last run of the effect returned
  sockets, timeouts, cleanup,
  \* useState of ChatInterface and the calls of handleSendChatMessage that
  \* have not returned, each with the body of its request
  message, chatHistory, isLoading, chatRequests

appVars ==
  << isProcessing, extractedParams, extractedText, emailParams, projectName,
     showMondaySearch, enquiryType, isLoadingResults, currentFile,
     processingStage, paramSources, showParameterValidator,
     originalEmailFile, validatorParams >>

searchVars ==
  << isSearching, searchResults, selectedProjectId, isRetrievingDetails >>

mergeVars == << mergeInput, mergeOutput >>

outputVars == << alerts, consoleErrors >>

validatorVars == << parameters, isSubmitting, error, success, submissions >>

normalizeVars == << normalizeArg, normalizeResults >>

dateVars == << dateArg, dateCalls >>

socketVars ==
  << hookMounted, jobId, socketRef, connected, reconnectTimeoutRef, sockets,
     timeouts, cleanup >>

\* the variables of what runs on its own: the functions called on their
\* own and the useWebSocket hook, which App does not call
ownVars == << mergeVars, normalizeVars, dateVars, socketVars >>

chatVars == << message, chatHistory, isLoading, chatRequests >>

vars ==
  << appVars, searchVars, inflight, outputVars, validatorVars, ownVars,
     chatVars >>

\* a JavaScript value used as a condition
Truthy(v) == v # null /\ v # undefined /\ v # <<>>

\* ------------------------------------------------------------------------
\* What the collaborators can answer
\* ------------------------------------------------------------------------

\* params objects of the extraction service (/api/process): one that holds
\* a missing value, values the new-enquiry path overwrites and values that
\* differ from the board's in case only
EmailParamSets ==
  { ("Email Subject" :> <<"R","E",":"," ","R","o","o","f">>)
      @@ ("Decking" :> <<"p","l","y">>)
      @@ ("Target U-Value" :> <<"N","o","t"," ","f","o","u","n","d">>)
      @@ ("Drawing Reference" :> <<"1","2","3","4","_","r","e","v","2">>)
      @@ ("Revision" :> <<"B">>)
      @@ ("Reason for Change" :> Amendment) }

\* params objects of the board record fetch (/api/monday/project/:id)
BoardParamSets ==
  { ("Email Subject" :> <<"r","e",":"," ","r","o","o","f">>)
      @@ ("Decking" :> <<"P","l","y">>)
      @@ ("Drawing Reference" :> <<"1","2","3","4","_","r","e","v","2">>)
      @@ ("Revision" :> <<"A">>)
      @@ ("Reason for Change" :> NewEnquiry),
    ("Target U-Value" :> <<"0",".","1","8">>) }

\* responses of POST /api/process with files; ok = FALSE stands for a
\* non-ok status and for a rejected fetch
ProcessResponses ==
  { [ok |-> FALSE, extractedText |-> undefined, params |-> nullObject,
     projectName |-> undefined] }
  \cup
  [ ok : {TRUE},
    extractedText : { <<>>, <<"t","e","x","t">> },
    params : EmailParamSets \cup {nullObject},
    projectName : { undefined, <<"H","a","l","l">> } ]

\* responses of GET /api/monday/project/:id
ProjectResponses ==
  { [ok |-> FALSE, params |-> nullObject] }
  \cup [ ok : {TRUE}, params : BoardParamSets \cup {nullObject} ]

\* responses of POST /api/process with extractedText
ReprocessResponses ==
  { [ok |-> FALSE, params |-> nullObject] }
  \cup [ ok : {TRUE}, params : EmailParamSets \cup {nullObject} ]

\* responses of POST /api/monday/search
SearchResponses ==
  { [ok |-> FALSE, exists |-> FALSE, matches |-> <<>>],
    [ok |-> TRUE, exists |-> FALSE, matches |-> <<>>],
    [ok |-> TRUE, exists |-> TRUE, matches |-> << <<"7">> >>],
    [ok |-> TRUE, exists |-> TRUE, matches |-> << <<"7">>, <<"8">> >>] }

\* the file list the user submits: a drawing and the email it came with
FileLists ==
  { << <<"c",".","p","d","f">>, <<"B",".","M","S","G">> >> }

\* ------------------------------------------------------------------------
\* ParameterValidator: cleanExtractedValue, formatDateForMonday, the
\* projection of the parameter set to the records of the validator
\* ------------------------------------------------------------------------

\* v || d
OrElse(v, d) == IF Truthy(v) THEN v ELSE d

\* the characters of ["'], of \d and the line terminators "." leaves out
Quotes == {"\"", "'"}

Digits == {"0", "1", "2", "3", "4", "5", "6", "7", "8", "9"}

LineTerminators == {"\n", "\r"}

\* \s* from position i of s: the first position that holds no white space
RECURSIVE skipWhiteSpace(_, _)
skipWhiteSpace(s, i) ==
  IF i <= Len(s) /\ s[i] \in WhiteSpace THEN skipWhiteSpace(s, i + 1) ELSE i

\* [^"']* from position i of s: the first position that holds a quote
RECURSIVE skipNonQuotes(_, _)
skipNonQuotes(s, i) ==
  IF i <= Len(s) /\ s[i] \notin Quotes THEN skipNonQuotes(s, i + 1) ELSE i

\* \d* from position i of s: the first position that holds no digit
RECURSIVE skipDigits(_, _)
skipDigits(s, i) ==
  IF i <= Len(s) /\ s[i] \in Digits THEN skipDigits(s, i + 1) ELSE i

\* ["']?\s*: tried at position i of s: the position of the colon, 0 when
\* there is no match (a quote at i can only be taken, white space can only
\* be taken whole, because neither is a colon)
colonAt(s, i) ==
  LET j == IF i <= Len(s) /\ s[i] \in Quotes THEN i + 1 ELSE i
      k == skipWhiteSpace(s, j)
  IN  IF k <= Len(s) /\ s[k] = ":" THEN k ELSE 0

\* /["']?\s*:\s*["']([^"']+)["']/ tried at position i of s: group 1, null
\* when there is no match
quotedMatchAt(s, i) ==
  LET c == colonAt(s, i)
      q == skipWhiteSpace(s, c + 1)
      e == skipNonQuotes(s, q + 1)
  IN  IF /\ c # 0
         /\ q <= Len(s) /\ s[q] \in Quotes
         /\ e > q + 1
         /\ e <= Len(s)
      THEN SubSeq(s, q + 1, e - 1)
      ELSE null

\* value.match(/["']?\s*:\s*["']([^"']+)["']/): group 1 of the leftmost match
quotedMatch(s) ==
  LET starts == {i \in 1..Len(s) : quotedMatchAt(s, i) # null}
  IN  IF starts = {}
      THEN null
      ELSE quotedMatchAt(s, CHOOSE i \in starts : \A j \in starts : i <= j)

\* value.match(/^["']?\s*:\s*(.+?)[\s,]*$/): group 1.  The second \s* gives
\* back white space until the lazy group finds a first character; the group
\* holds no line terminator and ends as soon as only white space and commas
\* follow.
colonMatch(s) ==
  LET c == colonAt(s, 1)
      p == skipWhiteSpace(s, c + 1)
      ends(q) == {e \in q..Len(s) :
                    /\ \A x \in q..e : s[x] \notin LineTerminators
                    /\ \A x \in (e + 1)..Len(s) : s[x] \in WhiteSpace \cup {","}}
      starts == {q \in (c + 1)..p : q <= Len(s) /\ ends(q) # {}}
      q0 == CHOOSE q \in starts : \A r \in starts : r <= q
  IN  IF c = 0 \/ starts = {}
      THEN null
      ELSE SubSeq(s, q0, CHOOSE e \in ends(q0) : \A f \in ends(q0) : e <= f)

\* value.match(/^\d+:\d+/)
timeMatch(s) ==
  LET d == skipDigits(s, 1)
  IN  /\ d > 1
      /\ d + 1 <= Len(s)
      /\ s[d] = ":"
      /\ s[d + 1] \in Digits

\* value.replace(/^["'\s]+|["'\s,]+$/g, ''): the leading run, then the
\* trailing run of what is left
RECURSIVE stripStart(_)
stripStart(s) ==
  IF Len(s) > 0 /\ s[1] \in Quotes \cup WhiteSpace
  THEN stripStart(Tail(s))
  ELSE s

RECURSIVE stripEnd(_)
stripEnd(s) ==
  IF Len(s) > 0 /\ s[Len(s)] \in Quotes \cup WhiteSpace \cup {","}
  THEN stripEnd(SubSeq(s, 1, Len(s) - 1))
  ELSE s

\* the three returns of cleanExtractedValue for a value that is not empty
cleaned(value, quoted, colon) ==
  IF quoted # null THEN trim(quoted)
  ELSE IF colon # null /\ ~timeMatch(value) THEN trim(colon)
  ELSE stripEnd(stripStart(value))

\* cleanExtractedValue taking the first colon of any value for the
\* separator of a key and its value
cleanExtractedValue_SplitsAtAnyColon(value) ==
  LET colons == {i \in 1..Len(value) : value[i] = ":"}
      first  == CHOOSE i \in colons : \A j \in colons : i <= j
  IN  IF ~Truthy(value) THEN << >>
      ELSE IF colons # {}
           THEN stripEnd(stripStart(SubSeq(value, first + 1, Len(value))))
      ELSE stripEnd(stripStart(value))

cleanExtractedValue(value) ==
  IF ~Truthy(value) THEN << >>
  ELSE cleaned(value, quotedMatch(value), colonMatch(value))

\* /^(\d{2})[/-](\d{2})[/-](\d{4})$/
ddMmYyyyRegex(s) ==
  /\ Len(s) = 10
  /\ \A i \in {1, 2, 4, 5, 7, 8, 9, 10} : s[i] \in Digits
  /\ s[3] \in {"/", "-"}
  /\ s[6] \in {"/", "-"}

\* /^\d{4}-\d{2}-\d{2}$/
yyyyMmDdRegex(s) ==
  /\ Len(s) = 10
  /\ \A i \in {1, 2, 3, 4, 6, 7, 9, 10} : s[i] \in Digits
  /\ s[5] = "-"
  /\ s[8] = "-"

\* formatDateForMonday reading the first group as the month
formatDateForMonday_MonthFirst(dateString) ==
  IF ~Truthy(dateString) THEN << >>
  ELSE IF ddMmYyyyRegex(dateString)
       THEN SubSeq(dateString, 7, 10) \o <<"-">> \o SubSeq(dateString, 1, 2)
              \o <<"-">> \o SubSeq(dateString, 4, 5)
  ELSE dateString

formatDateForMonday(dateString) ==
  IF ~Truthy(dateString) THEN << >>
  ELSE IF ddMmYyyyRegex(dateString)
       THEN SubSeq(dateString, 7, 10) \o <<"-">> \o SubSeq(dateString, 4, 5)
              \o <<"-">> \o SubSeq(dateString, 1, 2)
  ELSE IF yyyyMmDdRegex(dateString) THEN dateString
  ELSE dateString

\* the display form of a stored date: YYYY-MM-DD becomes DD/MM/YYYY, any
\* other string is returned as it is
toDisplayDate(s) ==
  IF yyyyMmDdRegex(s)
  THEN SubSeq(s, 9, 10) \o <<"/">> \o SubSeq(s, 6, 7) \o <<"/">> \o SubSeq(s, 1, 4)
  ELSE s

\* s.split('_')[0]
RECURSIVE splitFirst(_)
splitFirst(s) ==
  IF Len(s) = 0 \/ s[1] = "_"
  THEN << >>
  ELSE <<s[1]>> \o splitFirst(Tail(s))

MONDAY_COLUMN_MAPPING ==
  ("Date Received" :> "Date Received")
    @@ ("Hour Received" :> "Hour Received")
    @@ ("Post Code" :> "Zip Code")
    @@ ("Drawing Reference" :> "TP Ref")
    @@ ("New Enq / Amend" :> "New Enq / Amend")

MONDAY_BOARD_CONFIG == [boardId |-> 1882196103, groupId |-> "group_mkpbd6vy"]

EMAIL_COLUMN_ID == "file_mkpbm883"

NotProvided == <<"N","o","t"," ","p","r","o","v","i","d","e","d">>

NotFound == <<"N","o","t"," ","f","o","u","n","d">>

\* the projection without the normalisation of the editable values
validatableParams_RawValues(params, type) ==
  LET field(key) ==
        [key |-> key, displayName |-> key,
         value |-> OrElse(Get(params, key), << >>),
         mondayColumnTitle |-> MONDAY_COLUMN_MAPPING[key],
         editable |-> TRUE]
      tpRef == splitFirst(cleanExtractedValue(Get(params, "Drawing Reference")))
      fixed ==
        << field("Date Received"),
           field("Hour Received"),
           field("Post Code"),
           [key |-> "New Enq / Amend", displayName |-> "New Enq / Amend",
            value |-> OrElse(type, << >>),
            mondayColumnTitle |-> MONDAY_COLUMN_MAPPING["New Enq / Amend"],
            editable |-> FALSE] >>
  IN  IF /\ type = Amendment
         /\ Truthy(Get(params, "Drawing Reference"))
         /\ Truthy(tpRef) /\ tpRef # NotProvided /\ tpRef # NotFound
      THEN Append(fixed,
                  [key |-> "Drawing Reference", displayName |-> "TP Ref",
                   value |-> tpRef,
                   mondayColumnTitle |-> MONDAY_COLUMN_MAPPING["Drawing Reference"],
                   editable |-> FALSE])
      ELSE fixed

\* the projection that adds the drawing reference for either classification
validatableParams_AnyClassification(params, type) ==
  LET field(key) ==
        [key |-> key, displayName |-> key,
         value |-> cleanExtractedValue(OrElse(Get(params, key), << >>)),
         mondayColumnTitle |-> MONDAY_COLUMN_MAPPING[key],
         editable |-> TRUE]
      tpRef == splitFirst(cleanExtractedValue(Get(params, "Drawing Reference")))
      fixed ==
        << field("Date Received"),
           field("Hour Received"),
           field("Post Code"),
           [key |-> "New Enq / Amend", displayName |-> "New Enq / Amend",
            value |-> OrElse(type, << >>),
            mondayColumnTitle |-> MONDAY_COLUMN_MAPPING["New Enq / Amend"],
            editable |-> FALSE] >>
  IN  IF /\ Truthy(Get(params, "Drawing Reference"))
         /\ Truthy(tpRef) /\ tpRef # NotProvided /\ tpRef # NotFound
      THEN Append(fixed,
                  [key |-> "Drawing Reference", displayName |-> "TP Ref",
                   value |-> tpRef,
                   mondayColumnTitle |-> MONDAY_COLUMN_MAPPING["Drawing Reference"],
                   editable |-> FALSE])
      ELSE fixed

\* the records the projection effect builds from its props
validatableParams(params, type) ==
  LET field(key) ==
        [key |-> key, displayName |-> key,
         value |-> cleanExtractedValue(OrElse(Get(params, key), << >>)),
         mondayColumnTitle |-> MONDAY_COLUMN_MAPPING[key],
         editable |-> TRUE]
      tpRef == splitFirst(cleanExtractedValue(Get(params, "Drawing Reference")))
      fixed ==
        << field("Date Received"),
           field("Hour Received"),
           field("Post Code"),
           [key |-> "New Enq / Amend", displayName |-> "New Enq / Amend",
            value |-> OrElse(type, << >>),
            mondayColumnTitle |-> MONDAY_COLUMN_MAPPING["New Enq / Amend"],
            editable |-> FALSE] >>
  IN  IF /\ type = Amendment
         /\ Truthy(Get(params, "Drawing Reference"))
         /\ Truthy(tpRef) /\ tpRef # NotProvided /\ tpRef # NotFound
      THEN Append(fixed,
                  [key |-> "Drawing Reference", displayName |-> "TP Ref",
                   value |-> tpRef,
                   mondayColumnTitle |-> MONDAY_COLUMN_MAPPING["Drawing Reference"],
                   editable |-> FALSE])
      ELSE fixed

\* ------------------------------------------------------------------------
\* ParameterValidator: mounting and the projection effect
\* ------------------------------------------------------------------------

\* {showParameterValidator && extractedParams && (<ParameterValidator .../>)}
validatorMounted == showParameterValidator /\ extractedParams # nullObject

\* extractedParams={validatorParams ?? extractedParams}
validatorExtractedParams ==
  IF validatorParams # nullObject THEN validatorParams ELSE extractedParams

\* ChatInterface (useState)
InitChat ==
  /\ message = << >>
  /\ chatHistory = << >>
  /\ isLoading = FALSE
  /\ chatRequests = << >>

\* no date function has been called on its own
InitNoDateCalls ==
  /\ dateArg = null
  /\ dateCalls = << >>

\* no component that calls useWebSocket is mounted
InitNoSocket ==
  /\ hookMounted = FALSE
  /\ jobId = null
  /\ socketRef = 0
  /\ connected = FALSE
  /\ reconnectTimeoutRef = 0
  /\ sockets = << >>
  /\ timeouts = << >>
  /\ cleanup = 0

InitValidatorState ==
  /\ parameters = << >>
  /\ isSubmitting = FALSE
  /\ error = null
  /\ success = null

\* The component state after an App update.  A newly mounted instance starts
\* with the initial state and its effect sets the records; the effect runs
\* again when extractedParams or enquiryType of the props changed; an
\* unmounted instance loses its state, and the setState calls of its pending
\* handleSubmit go nowhere.
ValidatorRenders ==
  LET mounts == showParameterValidator' /\ extractedParams' # nullObject
      props  == IF validatorParams' # nullObject
                THEN validatorParams'
                ELSE extractedParams'
      effect == \/ ~validatorMounted
                \/ props # validatorExtractedParams
                \/ enquiryType' # enquiryType
  IN  /\ parameters' =
           IF ~mounts THEN << >>
           ELSE IF effect THEN validatableParams(props, enquiryType')
           ELSE parameters
      /\ IF mounts /\ validatorMounted
         THEN UNCHANGED << isSubmitting, error, success >>
         ELSE /\ isSubmitting' = FALSE
              /\ error' = null
              /\ success' = null
      /\ submissions' =
           IF mounts THEN submissions
           ELSE [i \in 1..Len(submissions) |->
                   [submissions[i] EXCEPT !.mounted = FALSE]]

\* ------------------------------------------------------------------------
\* Init
\* ------------------------------------------------------------------------

InitApp ==
  /\ isProcessing = FALSE
  /\ extractedParams = nullObject
  /\ extractedText = null
  /\ emailParams = nullObject
  /\ projectName = null
  /\ showMondaySearch = FALSE
  /\ enquiryType = null
  /\ isLoadingResults = FALSE
  /\ currentFile = null
  /\ processingStage = null
  /\ paramSources = nullObject
  /\ showParameterValidator = FALSE
  /\ originalEmailFile = null
  /\ validatorParams = nullObject

InitSearch ==
  /\ isSearching = FALSE
  /\ searchResults = nullObject
  /\ selectedProjectId = null
  /\ isRetrievingDetails = FALSE

Init ==
  /\ InitApp
  /\ InitSearch
  /\ inflight = <<>>
  /\ alerts = <<>>
  /\ consoleErrors = <<>>
  /\ mergeInput = nullObject
  /\ mergeOutput = nullObject
  /\ InitValidatorState
  /\ submissions = << >>
  /\ normalizeArg = null
  /\ normalizeResults = << >>
  /\ InitNoDateCalls
  /\ InitNoSocket
  /\ InitChat

\* ------------------------------------------------------------------------
\* MondayProjectSearch: mounting, searchProjects, the radio group
\* ------------------------------------------------------------------------

\* {showMondaySearch && projectName && (<MondayProjectSearch .../>)}
searchMounted == showMondaySearch /\ Truthy(projectName)

\* The component state after an App update that leaves showMondaySearch at
\* show and projectName at name: a newly mounted instance starts with the
\* initial state and its effect calls searchProjects (isSearching is set);
\* an unmounted instance loses its state, and the setState calls of its
\* pending search go nowhere.
SearchRenders(show, name) ==
  IF show /\ Truthy(name)
  THEN IF searchMounted
       THEN UNCHANGED searchVars
       ELSE /\ isSearching' = TRUE
            /\ searchResults' = nullObject
            /\ selectedProjectId' = null
            /\ isRetrievingDetails' = FALSE
  ELSE /\ isSearching' = FALSE
       /\ searchResults' = nullObject
       /\ selectedProjectId' = null
       /\ isRetrievingDetails' = FALSE

\* the response of searchProjects arrives
searchProjectsDone ==
  /\ searchMounted
  /\ isSearching
  /\ \E resp \in SearchResponses :
       IF resp.ok
       THEN /\ searchResults' = [exists |-> resp.exists, matches |-> resp.matches]
            /\ selectedProjectId' =
                 IF resp.exists /\ Len(resp.matches) > 0
                 THEN resp.matches[1]
                 ELSE none
            /\ alerts' = <<>>
            /\ consoleErrors' = <<>>
       ELSE /\ consoleErrors' = <<"Error searching projects:">>
            /\ alerts' = <<"An error occurred while searching for projects.">>
            /\ UNCHANGED << searchResults, selectedProjectId >>
  /\ isSearching' = FALSE
  /\ UNCHANGED << appVars, isRetrievingDetails, inflight, validatorVars, ownVars, chatVars >>

\* the results are on screen: Continue and (with matches) the radio group
searchResultsShown ==
  /\ searchMounted
  /\ ~isSearching
  /\ searchResults # nullObject

\* RadioGroup onValueChange
onValueChange ==
  /\ searchResultsShown
  /\ searchResults.exists
  /\ Len(searchResults.matches) > 0
  /\ \E value \in {searchResults.matches[i] : i \in 1..Len(searchResults.matches)}
                    \cup {none} :
       selectedProjectId' = value
  /\ alerts' = <<>>
  /\ consoleErrors' = <<>>
  /\ UNCHANGED << appVars, isSearching, searchResults, isRetrievingDetails,
                  inflight, validatorVars, ownVars, chatVars >>

\* ------------------------------------------------------------------------
\* App: handleFileUpload
\* ------------------------------------------------------------------------

\* the request records of inflight
ProcessRequest(files) ==
  [kind |-> "process", files |-> files, emailParams |-> nullObject,
   extractedText |-> null]

ProjectRequest ==
  [kind |-> "project", files |-> <<>>, emailParams |-> emailParams,
   extractedText |-> extractedText]

ReprocessRequest ==
  [kind |-> "reprocess", files |-> <<>>, emailParams |-> nullObject,
   extractedText |-> null]

Remove(seq, i) == SubSeq(seq, 1, i - 1) \o SubSeq(seq, i + 1, Len(seq))

isEmailFile(name) ==
  \/ endsWith(toLowerCase(name), <<".","e","m","l">>)
  \/ endsWith(toLowerCase(name), <<".","m","s","g">>)

\* fileArray.find(...) || null
findEmailFile(files) ==
  IF \E i \in 1..Len(files) : isEmailFile(files[i])
  THEN files[CHOOSE i \in 1..Len(files) :
               /\ isEmailFile(files[i])
               /\ \A j \in 1..(i - 1) : ~isEmailFile(files[j])]
  ELSE null

newEnquiryDefaults_RevisionKept ==
  ("Reason for Change" :> NewEnquiry)
    @@ ("Drawing Reference" :> TAPEREDPLUS_ASSIGNMENT_TEXT)

\* the values forced on the new-enquiry path
newEnquiryDefaults ==
  ("Reason for Change" :> NewEnquiry)
    @@ ("Drawing Reference" :> TAPEREDPLUS_ASSIGNMENT_TEXT)
    @@ ("Revision" :> TAPEREDPLUS_ASSIGNMENT_TEXT)

\* const updatedParams = { ...params, "Reason for Change": ..., ... }
newEnquiryParams(params) == Assign(Spread(params), newEnquiryDefaults)

\* const emailOnlySources = Object.keys(updatedParams).reduce(...)
emailOnlySources(updatedParams) ==
  [k \in DOMAIN updatedParams |->
     IF k = "Drawing Reference" \/ k = "Revision"
     THEN BusinessRule
     ELSE EmailContent]

\* Process Files is pressed: handleFileUpload up to its fetch
handleFileUpload ==
  /\ ~isProcessing
  /\ Len(inflight) < MaxInFlight
  /\ \E files \in FileLists :
       /\ currentFile' = files[Len(files)]
       /\ inflight' = Append(inflight, ProcessRequest(files))
  /\ isProcessing' = TRUE
  /\ extractedParams' = nullObject
  /\ extractedText' = null
  /\ projectName' = null
  /\ showMondaySearch' = FALSE
  /\ enquiryType' = null
  /\ processingStage' = <<"S","e","n","d","i","n","g"," ","f","i","l","e","s"," ","a","n","d"," ","a","t","t","a","c","h","m","e","n","t","s"," ","t","o"," ","s","e","r","v","e","r">>
  /\ SearchRenders(FALSE, null)
  /\ alerts' = <<>>
  /\ consoleErrors' = <<>>
  /\ UNCHANGED << emailParams, isLoadingResults, paramSources,
                  showParameterValidator, originalEmailFile, validatorParams,
                  ownVars, chatVars >>
  /\ ValidatorRenders

\* the response of the upload arrives: the rest of handleFileUpload
handleFileUploadDone ==
  \E i \in 1..Len(inflight) : \E resp \in ProcessResponses :
    /\ inflight[i].kind = "process"
    /\ inflight' = Remove(inflight, i)
    /\ IF resp.ok
       THEN /\ extractedText' = resp.extractedText
            /\ emailParams' = resp.params
            /\ IF Truthy(resp.projectName)
               THEN /\ projectName' = resp.projectName
                    /\ showMondaySearch' = TRUE
                    /\ SearchRenders(TRUE, resp.projectName)
                    /\ UNCHANGED << enquiryType, extractedParams, paramSources >>
               ELSE /\ enquiryType' = NewEnquiry
                    /\ extractedParams' = newEnquiryParams(resp.params)
                    /\ paramSources' =
                         emailOnlySources(newEnquiryParams(resp.params))
                    /\ SearchRenders(showMondaySearch, projectName)
                    /\ UNCHANGED << projectName, showMondaySearch >>
            /\ originalEmailFile' = findEmailFile(inflight[i].files)
       ELSE /\ SearchRenders(showMondaySearch, projectName)
            /\ UNCHANGED << extractedText, emailParams, projectName,
                            showMondaySearch, enquiryType, extractedParams,
                            paramSources, originalEmailFile >>
    /\ isProcessing' = FALSE
    /\ currentFile' = null
    /\ processingStage' = null
    /\ alerts' = <<>>
    /\ consoleErrors' = IF resp.ok THEN <<>> ELSE <<"Error:">>
    /\ UNCHANGED << isLoadingResults, showParameterValidator, validatorParams,
                    ownVars, chatVars >>
    /\ ValidatorRenders

\* ------------------------------------------------------------------------
\* App: handleContinueAsNew, handleProjectSelected
\* ------------------------------------------------------------------------

\* handleContinueAsNew as the render that holds extractedText = text defines
\* it, called when pending are the requests in flight.  It returns right
\* after issuing its fetch; isLoadingResults is left to the caller, because
\* the finally block of handleProjectSelected writes it after the call.
handleContinueAsNew(text, pending) ==
  /\ enquiryType' = NewEnquiry
  /\ IF Truthy(text)
     THEN /\ inflight' = Append(pending, ReprocessRequest)
          /\ UNCHANGED showMondaySearch
          /\ SearchRenders(showMondaySearch, projectName)
     ELSE /\ inflight' = pending
          /\ showMondaySearch' = FALSE
          /\ SearchRenders(FALSE, projectName)

\* Continue is pressed with "None of the above" selected:
\* handleContinue calls onContinueAsNew
handleContinueNone ==
  /\ searchResultsShown
  /\ ~isRetrievingDetails
  /\ selectedProjectId = none
  /\ Truthy(extractedText) => Len(inflight) < MaxInFlight
  /\ handleContinueAsNew(extractedText, inflight)
  /\ isLoadingResults' = Truthy(extractedText)
  /\ alerts' = <<>>
  /\ consoleErrors' = <<>>
  /\ UNCHANGED << isProcessing, extractedParams, extractedText, emailParams,
                  projectName, currentFile, processingStage, paramSources,
                  showParameterValidator, originalEmailFile, validatorParams,
                  ownVars, chatVars >>
  /\ ValidatorRenders

\* handleProjectSelected(projectId) up to its fetch, for a projectId that is
\* neither null nor 'none'
handleProjectSelected(projectId) ==
  /\ projectId # null /\ projectId # none
  /\ enquiryType' = Amendment
  /\ isLoadingResults' = TRUE
  /\ inflight' = Append(inflight, ProjectRequest)

\* Continue is pressed with a project selected: handleContinue sets
\* isRetrievingDetails, calls onProjectSelected without awaiting it and
\* clears isRetrievingDetails in its finally block, all in the same event
handleContinueProject ==
  /\ searchResultsShown
  /\ ~isRetrievingDetails
  /\ selectedProjectId # none
  /\ Truthy(selectedProjectId)
  /\ Len(inflight) < MaxInFlight
  /\ handleProjectSelected(selectedProjectId)
  /\ isRetrievingDetails' = FALSE
  /\ alerts' = <<>>
  /\ consoleErrors' = <<>>
  /\ UNCHANGED << isProcessing, extractedParams, extractedText, emailParams,
                  projectName, showMondaySearch, currentFile, processingStage,
                  paramSources, showParameterValidator, originalEmailFile,
                  validatorParams, isSearching, searchResults,
                  selectedProjectId, ownVars, chatVars >>
  /\ ValidatorRenders

\* the response of the board record fetch arrives: the rest of
\* handleProjectSelected
handleProjectSelectedDone ==
  \E i \in 1..Len(inflight) : \E resp \in ProjectResponses :
    /\ inflight[i].kind = "project"
    /\ IF resp.ok /\ resp.params # nullObject
       THEN LET mondayParams ==
                  Assign(resp.params, "Reason for Change" :> Amendment)
                result == mergeParameters(mondayParams, inflight[i].emailParams)
            IN /\ extractedParams' = result.merged
               /\ paramSources' = result.sources
               /\ showMondaySearch' = FALSE
               /\ SearchRenders(FALSE, projectName)
               /\ inflight' = Remove(inflight, i)
               /\ alerts' = <<>>
               /\ consoleErrors' = <<>>
               /\ UNCHANGED enquiryType
       ELSE \* catch: alert, then fall back to new enquiry
            /\ consoleErrors' = <<"Error getting project details:">>
            /\ alerts' = <<"An error occurred while retrieving project details.">>
            /\ handleContinueAsNew(inflight[i].extractedText, Remove(inflight, i))
            /\ UNCHANGED << extractedParams, paramSources >>
    \* finally
    /\ isLoadingResults' = FALSE
    /\ UNCHANGED << isProcessing, extractedText, emailParams, projectName,
                    currentFile, processingStage, showParameterValidator,
                    originalEmailFile, validatorParams, ownVars, chatVars >>
    /\ ValidatorRenders

\* the response of the fetch of handleContinueAsNew arrives: its then /
\* catch / finally callbacks
handleContinueAsNewDone ==
  \E i \in 1..Len(inflight) : \E resp \in ReprocessResponses :
    /\ inflight[i].kind = "reprocess"
    /\ inflight' = Remove(inflight, i)
    /\ IF resp.ok
       THEN /\ extractedParams' = newEnquiryParams(resp.params)
            /\ showMondaySearch' = FALSE
            /\ paramSources' = emailOnlySources(newEnquiryParams(resp.params))
            /\ SearchRenders(FALSE, projectName)
            /\ alerts' = <<>>
            /\ consoleErrors' = <<>>
       ELSE /\ consoleErrors' = <<"Error:">>
            /\ alerts' = <<"An error occurred while processing text data.">>
            /\ SearchRenders(showMondaySearch, projectName)
            /\ UNCHANGED << extractedParams, showMondaySearch, paramSources >>
    /\ isLoadingResults' = FALSE
    /\ UNCHANGED << isProcessing, extractedText, emailParams, projectName,
                    enquiryType, currentFile, processingStage,
                    showParameterValidator, originalEmailFile,
                    validatorParams, ownVars, chatVars >>
    /\ ValidatorRenders

\* ------------------------------------------------------------------------
\* App: the validator button and resetApp
\* ------------------------------------------------------------------------

canCreateMondayItem ==
  /\ extractedParams # nullObject
  /\ ~isLoadingResults
  /\ ~showMondaySearch

handleShowValidator ==
  /\ IF ~canCreateMondayItem \/ extractedParams = nullObject
     THEN UNCHANGED << validatorParams, showParameterValidator >>
     ELSE /\ validatorParams' = extractedParams
          /\ showParameterValidator' = TRUE
  /\ alerts' = <<>>
  /\ consoleErrors' = <<>>
  /\ UNCHANGED << isProcessing, extractedParams, extractedText, emailParams,
                  projectName, showMondaySearch, enquiryType,
                  isLoadingResults, currentFile, processingStage,
                  paramSources, originalEmailFile, searchVars, inflight,
                  ownVars, chatVars >>
  /\ ValidatorRenders

\* resetApp that forgets the validator snapshot and the provenance map
resetApp_SnapshotKept ==
  /\ extractedParams' = nullObject
  /\ extractedText' = null
  /\ emailParams' = nullObject
  /\ projectName' = null
  /\ showMondaySearch' = FALSE
  /\ enquiryType' = null
  /\ showParameterValidator' = FALSE
  /\ originalEmailFile' = null
  /\ SearchRenders(FALSE, null)
  /\ alerts' = <<>>
  /\ consoleErrors' = <<>>
  /\ chatHistory' = << >>
  /\ UNCHANGED << isProcessing, isLoadingResults, currentFile, paramSources,
                  validatorParams, processingStage, inflight, ownVars,
                  message, isLoading, chatRequests >>
  /\ ValidatorRenders

resetApp ==
  /\ extractedParams' = nullObject
  /\ extractedText' = null
  /\ emailParams' = nullObject
  /\ paramSources' = nullObject
  /\ projectName' = null
  /\ showMondaySearch' = FALSE
  /\ enquiryType' = null
  /\ showParameterValidator' = FALSE
  /\ originalEmailFile' = null
  /\ validatorParams' = nullObject
  /\ SearchRenders(FALSE, null)
  /\ alerts' = <<>>
  /\ consoleErrors' = <<>>
  \* setChatResetTrigger(Date.now()): the effect of ChatInterface on
  \* [onReset] runs with a new value that is not 0
  /\ chatHistory' = << >>
  /\ UNCHANGED << isProcessing, isLoadingResults, currentFile,
                  processingStage, inflight, ownVars, message, isLoading,
                  chatRequests >>
  /\ ValidatorRenders

\* ------------------------------------------------------------------------
\* ParameterValidator: handleParameterChange, handleSubmit, Cancel
\* ------------------------------------------------------------------------

\* the values a user types into an input of the validator
EditValues ==
  { << >>,
    <<"3","1","-","1","2","-","2","0","2","4">>,
    <<" ","N","1",",">> }

\* onChange of the Input of record index
handleParameterChange_WritesBack(index, newValue) ==
  /\ validatorMounted
  /\ ~isSubmitting
  /\ index \in 1..Len(parameters)
  /\ parameters[index].editable
  /\ parameters' = [parameters EXCEPT ![index].value = newValue]
  /\ validatorParams' =
       Assign(validatorExtractedParams, (parameters[index].key :> newValue))
  /\ alerts' = << >>
  /\ consoleErrors' = << >>
  /\ UNCHANGED << isProcessing, extractedParams, extractedText, emailParams,
                  projectName, showMondaySearch, enquiryType,
                  isLoadingResults, currentFile, processingStage,
                  paramSources, showParameterValidator, originalEmailFile,
                  searchVars, inflight, isSubmitting, error,
                  success, submissions, ownVars, chatVars >>

handleParameterChange(index, newValue) ==
  /\ validatorMounted
  /\ ~isSubmitting
  /\ index \in 1..Len(parameters)
  /\ parameters[index].editable
  /\ parameters' = [parameters EXCEPT ![index].value = newValue]
  /\ alerts' = << >>
  /\ consoleErrors' = << >>
  /\ UNCHANGED << appVars, searchVars, inflight, isSubmitting, error,
                  success, submissions, ownVars, chatVars >>

\* parameters.reduce(...): the value of each record under its column title,
\* the date through formatDateForMonday; a later record replaces an earlier
\* one of the same title
columnValuesByTitle(params) ==
  LET value(i) ==
        IF params[i].key = "Date Received" /\ Truthy(params[i].value)
        THEN formatDateForMonday(params[i].value)
        ELSE params[i].value
      last(title) ==
        CHOOSE i \in 1..Len(params) :
          /\ params[i].mondayColumnTitle = title
          /\ \A j \in (i + 1)..Len(params) : params[j].mondayColumnTitle # title
  IN  [title \in {params[i].mondayColumnTitle : i \in 1..Len(params)} |->
         value(last(title))]

NewItem == <<"N","e","w"," ","I","t","e","m">>

\* itemData of handleSubmit; the content of the file is left out
itemData(params, props, emailFile) ==
  [board_id |-> MONDAY_BOARD_CONFIG.boardId,
   group_id |-> MONDAY_BOARD_CONFIG.groupId,
   item_name |->
     OrElse(cleanExtractedValue(OrElse(Get(props, "Email Subject"), << >>)),
            NewItem),
   column_values_by_title |-> columnValuesByTitle(params),
   email_file |-> IF Truthy(emailFile) THEN emailFile ELSE undefined,
   email_column_id |-> IF Truthy(emailFile) THEN EMAIL_COLUMN_ID ELSE "undefined"]

\* Create Monday CRM Item is pressed: handleSubmit up to its first await
\* handleSubmit leaving the messages of the submission before it in place
handleSubmit_MessagesKept ==
  /\ validatorMounted
  /\ ~isSubmitting
  /\ Len(parameters) # 0
  /\ isSubmitting' = TRUE
  /\ submissions' =
       Append(submissions,
              [itemData |-> itemData(parameters, validatorExtractedParams,
                                     originalEmailFile),
               mounted |-> TRUE])
  /\ alerts' = << >>
  /\ consoleErrors' = << >>
  /\ UNCHANGED << appVars, searchVars, inflight, parameters, error, success,
                  ownVars, chatVars >>

handleSubmit ==
  /\ validatorMounted
  /\ ~isSubmitting
  /\ Len(parameters) # 0
  /\ isSubmitting' = TRUE
  /\ error' = null
  /\ success' = null
  /\ submissions' =
       Append(submissions,
              [itemData |-> itemData(parameters, validatorExtractedParams,
                                     originalEmailFile),
               mounted |-> TRUE])
  /\ alerts' = << >>
  /\ consoleErrors' = << >>
  /\ UNCHANGED << appVars, searchVars, inflight, parameters, ownVars, chatVars >>

FailedToCreate == <<"F","a","i","l","e","d"," ","t","o"," ","c","r","e","a","t","e"," ","M","o","n","d","a","y"," ","C","R","M"," ","i","t","e","m">>

AnErrorOccurred == <<"A","n"," ","e","r","r","o","r"," ","o","c","c","u","r","r","e","d">>

SuccessfullyCreated == <<"S","u","c","c","e","s","s","f","u","l","l","y"," ","c","r","e","a","t","e","d"," ","i","t","e","m"," ","i","n"," ","M","o","n","d","a","y"," ","C","R","M"," ","w","i","t","h"," ","I","D",":"," ">>

FileNotUploadedNote == <<"\n","\n","N","o","t","e",":"," ","T","h","e"," ","e","m","a","i","l"," ","f","i","l","e"," ","c","o","u","l","d"," ","n","o","t"," ","b","e"," ","u","p","l","o","a","d","e","d"," ","a","u","t","o","m","a","t","i","c","a","l","l","y","."," ","Y","o","u"," ","m","a","y"," ","n","e","e","d"," ","t","o"," ","u","p","l","o","a","d"," ","i","t"," ","m","a","n","u","a","l","l","y",".">>

\* what a pending handleSubmit can meet: the file cannot be read (only with
\* a file), the fetch is rejected, the response is not ok (with or without
\* an error text), the item is created (with or without the file)
SubmitOutcomes ==
  { [kind |-> "unreadable", error |-> undefined, id |-> undefined,
     file_uploaded |-> TRUE],
    [kind |-> "rejected",
     error |-> <<"F","a","i","l","e","d"," ","t","o"," ","f","e","t","c","h">>,
     id |-> undefined,
     file_uploaded |-> TRUE],
    [kind |-> "not ok", error |-> undefined, id |-> undefined,
     file_uploaded |-> TRUE],
    [kind |-> "not ok", error |-> <<"b","u","s","y">>, id |-> undefined,
     file_uploaded |-> TRUE],
    [kind |-> "ok", error |-> undefined, id |-> <<"4","2">>,
     file_uploaded |-> TRUE],
    [kind |-> "ok", error |-> undefined, id |-> <<"4","2">>,
     file_uploaded |-> FALSE] }

\* the pending handleSubmit i completes with outcome: the rest of
\* handleSubmit
handleSubmitSettles(i, outcome) ==
  LET call == submissions[i]
      hasFile == call.itemData.email_file # undefined
  IN  /\ outcome.kind = "unreadable" => hasFile
      /\ IF ~call.mounted
         THEN UNCHANGED << isSubmitting, error, success >>
         ELSE /\ isSubmitting' = FALSE
              /\ IF outcome.kind = "ok"
                 THEN /\ success' =
                           SuccessfullyCreated \o outcome.id \o
                             (IF ~outcome.file_uploaded /\ hasFile
                              THEN FileNotUploadedNote
                              ELSE << >>)
                      /\ UNCHANGED error
                 ELSE /\ error' =
                           IF outcome.kind = "not ok"
                           THEN OrElse(outcome.error, FailedToCreate)
                           ELSE IF outcome.kind = "rejected"
                                THEN outcome.error
                                ELSE AnErrorOccurred
                      /\ UNCHANGED success
      /\ submissions' = Remove(submissions, i)
      /\ alerts' = << >>
      /\ consoleErrors' = << >>
      /\ UNCHANGED << appVars, searchVars, inflight, parameters, ownVars, chatVars >>

handleSubmitDone ==
  \E i \in 1..Len(submissions) : \E outcome \in SubmitOutcomes :
    handleSubmitSettles(i, outcome)

\* Cancel is pressed
cancel ==
  /\ validatorMounted
  /\ ~isSubmitting
  /\ error' = null
  /\ success' = null
  /\ alerts' = << >>
  /\ consoleErrors' = << >>
  /\ UNCHANGED << appVars, searchVars, inflight, parameters, isSubmitting,
                  submissions, ownVars, chatVars >>

\* ------------------------------------------------------------------------
\* The session
\* ------------------------------------------------------------------------

Next ==
  \/ handleFileUpload
  \/ handleFileUploadDone
  \/ searchProjectsDone
  \/ onValueChange
  \/ handleContinueNone
  \/ handleContinueProject
  \/ handleProjectSelectedDone
  \/ handleContinueAsNewDone
  \/ handleShowValidator
  \/ resetApp

Spec == Init /\ [][Next]_vars

\* ------------------------------------------------------------------------
\* The validator on a session that shows results
\* ------------------------------------------------------------------------

\* merged parameter sets: with and without the keys of the validator, with
\* values that need cleaning, and with drawing references that are a
\* reference, missing-value texts in two spellings, the deferral text,
\* a revision only and the empty string
DrawingReferences ==
  { <<"1","2","3","4","_","r","e","v","2">>,
    NotFound,
    <<"n","o","t"," ","f","o","u","n","d">>,
    TAPEREDPLUS_ASSIGNMENT_TEXT,
    <<"_","r","e","v","2">>,
    << >> }

ValidatorParamSets ==
  LET keyed == ("Email Subject" :> <<"R","E",":"," ","R","o","o","f">>)
                 @@ ("Date Received" :> <<"0","1","/","0","2","/","2","0","2","4">>)
                 @@ ("Hour Received" :> <<"1","0",":","3","0">>)
                 @@ ("Post Code" :> <<" ","\"","N","1","\"",",">>)
  IN  { keyed @@ ("Drawing Reference" :> d) : d \in DrawingReferences }
        \cup { keyed, ("Decking" :> <<"p","l","y">>) }

\* The results of a session are on screen: an amendment holds the board's
\* parameters p (the upload returned a project name and no params), a new
\* enquiry holds the email's parameters p with the defaults.  The validator
\* is hidden, or (new enquiry) it was left open over an upload and still
\* holds the snapshot p of the earlier document.
InitResults ==
  \E p \in ValidatorParamSets, type \in {NewEnquiry, Amendment},
     file \in {null, <<"B",".","M","S","G">>}, shown \in BOOLEAN :
    /\ shown => type = NewEnquiry
    /\ isProcessing = FALSE
    /\ extractedParams = IF type = Amendment THEN p ELSE newEnquiryParams(p)
    /\ extractedText = <<"t","e","x","t">>
    /\ emailParams = IF type = Amendment THEN nullObject ELSE p
    /\ projectName = IF type = Amendment THEN <<"H","a","l","l">> ELSE null
    /\ showMondaySearch = FALSE
    /\ enquiryType = type
    /\ isLoadingResults = FALSE
    /\ currentFile = null
    /\ processingStage = null
    /\ paramSources =
         IF type = Amendment
         THEN mergeParameters(p, nullObject).sources
         ELSE emailOnlySources(newEnquiryParams(p))
    /\ showParameterValidator = shown
    /\ originalEmailFile = file
    /\ validatorParams = IF shown THEN p ELSE nullObject
    /\ parameters = IF shown THEN validatableParams(p, type) ELSE << >>
    /\ isSubmitting = FALSE
    /\ error = null
    /\ success = null
    /\ submissions = << >>
    /\ InitSearch
    /\ inflight = << >>
    /\ alerts = << >>
    /\ consoleErrors = << >>
    /\ mergeInput = nullObject
    /\ mergeOutput = nullObject
    /\ normalizeArg = null
    /\ normalizeResults = << >>
    /\ InitNoDateCalls
    /\ InitNoSocket
    /\ InitChat

NextValidator ==
  \/ handleShowValidator
  \/ \E index \in 1..Len(parameters), newValue \in EditValues :
       handleParameterChange(index, newValue)
  \/ handleSubmit
  \/ handleSubmitDone
  \/ cancel
  \/ resetApp

SpecValidator == InitResults /\ [][NextValidator]_vars

\* ------------------------------------------------------------------------
\* mergeParameters called on its own
\* ------------------------------------------------------------------------

\* the Parameter objects with keys among keys and values among values
ParameterObjects(keys, values) ==
  UNION { [d -> values] : d \in SUBSET keys }

\* the subject, an overridable key and a key outside the overridable list
MergeKeys == { "Email Subject", "Decking", "Drawing Reference" }

\* values of the board: a value, the empty string, a missing-value text
MergeBaseValues ==
  { <<"P","l","y">>,
    << >>,
    <<"N","o","t"," ","f","o","u","n","d">> }

\* values of the email: the board's value in other case and padding, another
\* value, the three missing-value texts in several spellings, the empty
\* string and a blank
MergeOverlayValues ==
  { <<"p","l","y">>,
    <<" ","P","L","Y"," ">>,
    <<"M","e","t","a","l">>,
    <<"N","o","t"," ","f","o","u","n","d">>,
    <<" ","N","O","T"," ","P","R","O","V","I","D","E","D"," ">>,
    TAPEREDPLUS_ASSIGNMENT_TEXT,
    << >>,
    <<" ">> }

InitMerge ==
  /\ InitApp
  /\ InitSearch
  /\ inflight = <<>>
  /\ alerts = <<>>
  /\ consoleErrors = <<>>
  /\ mergeInput \in
       [ monday : ParameterObjects(MergeKeys, MergeBaseValues),
         email  : ParameterObjects(MergeKeys, MergeOverlayValues)
                    \cup {nullObject} ]
  /\ mergeOutput = nullObject
  /\ InitValidatorState
  /\ submissions = << >>
  /\ normalizeArg = null
  /\ normalizeResults = << >>
  /\ InitNoDateCalls
  /\ InitNoSocket
  /\ InitChat

callMergeParameters ==
  /\ mergeOutput = nullObject
  /\ mergeOutput' = mergeParameters(mergeInput.monday, mergeInput.email)
  /\ UNCHANGED << appVars, searchVars, inflight, outputVars, mergeInput,
                  validatorVars, normalizeVars, dateVars, socketVars,
                  chatVars >>

NextMerge == callMergeParameters

SpecMerge == InitMerge /\ [][NextMerge]_vars

\* ------------------------------------------------------------------------
\* Properties of mergeParameters (checked under SpecMerge)
\* ------------------------------------------------------------------------

\* ------------------------------------------------------------------------
\* cleanExtractedValue called on its own
\* ------------------------------------------------------------------------

\* a quote, the colon, white space with and without a line end, the comma,
\* a letter and a digit
ValueCharacters == {"\"", ":", " ", "\n", ",", "a", "1"}

\* the strings of at most n characters
Strings(n) == UNION { [1..k -> ValueCharacters] : k \in 0..n }

InitNormalize ==
  /\ InitApp
  /\ InitSearch
  /\ inflight = << >>
  /\ alerts = << >>
  /\ consoleErrors = << >>
  /\ mergeInput = nullObject
  /\ mergeOutput = nullObject
  /\ InitValidatorState
  /\ submissions = << >>
  /\ normalizeArg \in Strings(MaxValueLen)
  /\ normalizeResults = << >>
  /\ InitNoDateCalls
  /\ InitNoSocket
  /\ InitChat

\* cleanExtractedValue(normalizeArg), then cleanExtractedValue of the result
callCleanExtractedValue ==
  /\ Len(normalizeResults) < MaxApplications
  /\ normalizeResults' =
       Append(normalizeResults,
              cleanExtractedValue(IF normalizeResults = << >>
                                  THEN normalizeArg
                                  ELSE normalizeResults[Len(normalizeResults)]))
  /\ UNCHANGED << appVars, searchVars, inflight, outputVars, validatorVars,
                  mergeVars, normalizeArg, dateVars, socketVars, chatVars >>

NextNormalize == callCleanExtractedValue

SpecNormalize == InitNormalize /\ [][NextNormalize]_vars

\* ------------------------------------------------------------------------
\* ChatInterface and handleSendChatMessage of App
\* ------------------------------------------------------------------------

\* what the user types: a question, white space only, nothing
ChatMessages == { <<"U", "?">>, <<"R", "?">>, <<" ">>, << >> }

ChatApology == <<"S","o","r","r","y",","," ","a","n"," ","e","r","r","o","r"," ","o","c","c","u","r","r","e","d"," ","w","h","i","l","e"," ","p","r","o","c","e","s","s","i","n","g"," ","y","o","u","r"," ","r","e","q","u","e","s","t",".">>

\* what POST /api/chat does: a response that is ok with data.response, a
\* response that is not ok, a rejected fetch
ChatResponses ==
  { [ok |-> TRUE, response |-> <<"2", "2">>],
    [ok |-> FALSE, response |-> undefined] }

\* onChange of the input: setMessage(e.target.value)
onChange(value) ==
  /\ extractedParams # nullObject
  /\ ~isLoading
  /\ value # message
  /\ message' = value
  /\ UNCHANGED << appVars, searchVars, inflight, outputVars, validatorVars,
                  ownVars, chatHistory, isLoading, chatRequests >>

\* the form is submitted: handleSendMessage up to its await, with the call
\* of handleSendChatMessage up to its await
handleSendMessage ==
  /\ Truthy(trim(message))
  /\ extractedParams # nullObject
  /\ ~isLoading
  /\ Len(chatHistory) < MaxChatEntries
  /\ chatHistory' = Append(chatHistory, [role |-> "user", content |-> message])
  /\ message' = << >>
  /\ isLoading' = TRUE
  /\ chatRequests' = Append(chatRequests,
                            [message |-> message,
                             params |-> extractedParams,
                             extractedText |-> extractedText,
                             paramSources |-> paramSources,
                             enquiryType |-> enquiryType])
  /\ UNCHANGED << appVars, searchVars, inflight, outputVars, validatorVars,
                  ownVars >>

\* the fetch of handleSendChatMessage completes: it returns data.response
\* or, from its catch block, the apology; then the rest of handleSendMessage
handleSendMessageDone ==
  \E i \in 1..Len(chatRequests) : \E resp \in ChatResponses :
    /\ chatRequests' = Remove(chatRequests, i)
    /\ chatHistory' =
         Append(chatHistory,
                [role |-> "assistant",
                 content |-> IF resp.ok THEN resp.response ELSE ChatApology])
    /\ isLoading' = FALSE
    /\ consoleErrors' = IF resp.ok THEN << >> ELSE <<"Error:">>
    /\ alerts' = << >>
    /\ UNCHANGED << appVars, searchVars, inflight, validatorVars, ownVars,
                    message >>

NextChat ==
  \/ \E value \in ChatMessages : onChange(value)
  \/ handleSendMessage
  \/ handleSendMessageDone
  \/ resetApp

SpecChat == InitResults /\ [][NextChat]_vars

\* ------------------------------------------------------------------------
\* useWebSocket, called by a component that passes it a jobId
\* ------------------------------------------------------------------------

JobIds == { <<"j", "1">>, <<"j", "2">> }

\* the reasons socket.io gives a 'disconnect' handler when the connection
\* was not closed by socket.disconnect()
DisconnectReasons ==
  {"transport close", "transport error", "io server disconnect", "ping timeout"}

IoClientDisconnect == "io client disconnect"

\* the variables useWebSocket does not touch
hostVars ==
  << appVars, searchVars, inflight, outputVars, validatorVars, mergeVars,
     normalizeVars, dateVars, chatVars >>

\* io(url, { reconnection: false, forceNew: true }) called by the effect
\* that runs for job: a socket of its own that is connecting
io(job) ==
  [jobId |-> job, status |-> "connecting", joined |-> FALSE, reason |-> "",
   live |-> TRUE]

\* socks after socket.disconnect() on socket i: a connected socket closes
\* and leaves its rooms (its 'disconnect' handler runs with the reason
\* 'io client disconnect'), a connecting socket gives up
disconnect(socks, i) ==
  IF socks[i].status = "connected"
  THEN [socks EXCEPT ![i].status = "closed", ![i].joined = FALSE,
                     ![i].reason = IoClientDisconnect]
  ELSE [socks EXCEPT ![i].status = "closed"]

\* timers after clearTimeout(ref): a timer that has not run is cancelled
clearTimeout(timers, ref) ==
  IF ref # 0 THEN [timers EXCEPT ![ref].pending = FALSE] ELSE timers

\* the cleanup function of the effect (lines 104-116): sockets, timers and
\* the connected state after it, unchanged when the effect returned none
cleanedUp ==
  LET closes == cleanup # 0 /\ sockets[cleanup].status = "connected"
  IN  [sockets   |-> IF closes THEN disconnect(sockets, cleanup) ELSE sockets,
       timeouts  |-> IF cleanup # 0
                     THEN clearTimeout(timeouts, reconnectTimeoutRef)
                     ELSE timeouts,
       connected |-> IF closes THEN FALSE ELSE connected]

\* the body of the effect (lines 28-102) run for job in the state c that the
\* cleanup of the run before it left, with the ref ref to the socket
useEffect(job, c, ref) ==
  /\ Truthy(job) => Len(sockets) < MaxSockets
  /\ jobId' = job
  /\ UNCHANGED reconnectTimeoutRef
  /\ IF ~Truthy(job)
     THEN /\ sockets' = IF ref # 0 THEN disconnect(c.sockets, ref) ELSE c.sockets
          /\ connected' = IF ref # 0 /\ c.sockets[ref].status = "connected"
                          THEN FALSE ELSE c.connected
          /\ socketRef' = 0
          /\ timeouts' = c.timeouts
          /\ cleanup' = 0
     ELSE IF ref # 0 /\ c.sockets[ref].status = "connected"
     THEN /\ sockets' = c.sockets
          /\ connected' = c.connected
          /\ socketRef' = ref
          /\ timeouts' = clearTimeout(c.timeouts, reconnectTimeoutRef)
          /\ cleanup' = 0
     ELSE /\ sockets' =
               Append(IF ref # 0 THEN disconnect(c.sockets, ref) ELSE c.sockets,
                      io(job))
          /\ connected' = c.connected
          /\ socketRef' = Len(sockets) + 1
          /\ timeouts' = clearTimeout(c.timeouts, reconnectTimeoutRef)
          /\ cleanup' = Len(sockets) + 1

\* a component that calls useWebSocket(job, onProgress) is mounted: fresh
\* refs and state, then the effect
mount(job) ==
  /\ ~hookMounted
  /\ hookMounted' = TRUE
  /\ useEffect(job, [sockets |-> sockets, timeouts |-> timeouts,
                     connected |-> FALSE], 0)
  /\ UNCHANGED hostVars

\* the component renders with another jobId: the cleanup of the last run of
\* the effect, then the effect
jobIdChanges(job) ==
  /\ hookMounted
  /\ job # jobId
  /\ useEffect(job, cleanedUp, socketRef)
  /\ UNCHANGED << hookMounted, hostVars >>

\* the component is unmounted: the cleanup of the last run of the effect;
\* the handlers of its sockets and timers now set the state of no instance
unmount ==
  /\ hookMounted
  /\ hookMounted' = FALSE
  /\ sockets' = [i \in 1..Len(sockets) |->
                   [cleanedUp.sockets[i] EXCEPT !.live = FALSE]]
  /\ timeouts' = [t \in 1..Len(timeouts) |->
                    [cleanedUp.timeouts[t] EXCEPT !.live = FALSE]]
  /\ socketRef' = 0
  /\ connected' = FALSE
  /\ reconnectTimeoutRef' = 0
  /\ cleanup' = 0
  /\ UNCHANGED << jobId, hostVars >>

\* socket.on('connect') of socket i
onConnect(i) ==
  /\ sockets[i].status = "connecting"
  /\ sockets' = [sockets EXCEPT ![i].status = "connected", ![i].joined = TRUE]
  /\ connected' = IF sockets[i].live THEN TRUE ELSE connected
  /\ UNCHANGED << hookMounted, jobId, socketRef, reconnectTimeoutRef, timeouts,
                  cleanup, hostVars >>

\* socket.on('connect_error') of socket i (reconnection: false)
onConnectError(i) ==
  /\ sockets[i].status = "connecting"
  /\ sockets' = [sockets EXCEPT ![i].status = "closed"]
  /\ connected' = IF sockets[i].live THEN FALSE ELSE connected
  /\ UNCHANGED << hookMounted, jobId, socketRef, reconnectTimeoutRef, timeouts,
                  cleanup, hostVars >>

\* socket.on('disconnect') of socket i with a reason of the transport or
\* of the server
onDisconnect(i, reason) ==
  LET schedules == reason \in {"transport close", "transport error"}
  IN  /\ sockets[i].status = "connected"
      /\ sockets' = [sockets EXCEPT ![i].status = "closed", ![i].joined = FALSE,
                                    ![i].reason = reason]
      /\ connected' = IF sockets[i].live THEN FALSE ELSE connected
      /\ timeouts' = IF schedules
                     THEN Append(timeouts, [jobId |-> sockets[i].jobId,
                                            pending |-> TRUE,
                                            live |-> sockets[i].live])
                     ELSE timeouts
      /\ reconnectTimeoutRef' = IF schedules /\ sockets[i].live
                                THEN Len(timeouts) + 1
                                ELSE reconnectTimeoutRef
      /\ UNCHANGED << hookMounted, jobId, socketRef, cleanup, hostVars >>

\* the callback of setTimeout(..., 2000) of timer t: setConnected(false)
reconnectTimeout(t) ==
  /\ timeouts[t].pending
  /\ timeouts' = [timeouts EXCEPT ![t].pending = FALSE]
  /\ connected' = IF timeouts[t].live /\ Truthy(timeouts[t].jobId)
                  THEN FALSE ELSE connected
  /\ UNCHANGED << hookMounted, jobId, socketRef, reconnectTimeoutRef, sockets,
                  cleanup, hostVars >>

\* the connection attempt of a socket ends, with 'connect' or with
\* 'connect_error' (timeout: 60000)
connectionSettles == \E i \in 1..Len(sockets) : onConnect(i) \/ onConnectError(i)

timerRuns == \E t \in 1..Len(timeouts) : reconnectTimeout(t)

NextSocket ==
  \/ \E job \in JobIds \cup {null} : mount(job)
  \/ \E job \in JobIds \cup {null} : jobIdChanges(job)
  \/ unmount
  \/ connectionSettles
  \/ \E i \in 1..Len(sockets) : \E reason \in DisconnectReasons :
       onDisconnect(i, reason)
  \/ timerRuns

SpecSocket == Init /\ [][NextSocket]_vars

\* the event loop runs a timer that is due, and a connection attempt ends
SpecSocketFair ==
  /\ Init
  /\ [][NextSocket]_vars
  /\ WF_vars(timerRuns)
  /\ WF_vars(connectionSettles)

\* ------------------------------------------------------------------------
\* the date functions called on their own
\* ------------------------------------------------------------------------

\* two digits with day and month apart, and two characters that are not
TwoCharacters == { <<"0", "1">>, <<"3", "1">>, <<"1", "a">> }

\* four digits, four characters that are not, and three digits
YearCharacters == { <<"2", "0", "2", "4">>, <<"2", "0", "x", "4">>,
                    <<"2", "0", "2">> }

Separators == {"/", "-", "."}

\* strings in the day first and in the year first order with every pair of
\* separators, the empty string and a date followed by a line end
DateStrings ==
  { a \o <<s>> \o b \o <<t>> \o y :
      a \in TwoCharacters, b \in TwoCharacters, y \in YearCharacters,
      s \in Separators, t \in Separators }
  \cup
  { y \o <<s>> \o a \o <<t>> \o b :
      a \in TwoCharacters, b \in TwoCharacters, y \in YearCharacters,
      s \in Separators, t \in Separators }
  \cup
  { << >>,
    <<"0", "1", "/", "3", "1", "/", "2", "0", "2", "4", "\n">>,
    <<"2", "0", "2", "4", "-", "3", "1", "-", "0", "1", "\n">> }

InitDate ==
  /\ InitApp
  /\ InitSearch
  /\ inflight = << >>
  /\ alerts = << >>
  /\ consoleErrors = << >>
  /\ mergeInput = nullObject
  /\ mergeOutput = nullObject
  /\ InitValidatorState
  /\ submissions = << >>
  /\ normalizeArg = null
  /\ normalizeResults = << >>
  /\ dateArg \in DateStrings
  /\ dateCalls = << >>
  /\ InitNoSocket
  /\ InitChat

\* the argument of the next call: dateArg, then the result of the last call
dateValue ==
  IF dateCalls = << >> THEN dateArg ELSE dateCalls[Len(dateCalls)].result

callFormatDateForMonday ==
  /\ Len(dateCalls) < MaxDateCalls
  /\ dateCalls' = Append(dateCalls, [fn |-> "formatDateForMonday",
                                     result |-> formatDateForMonday(dateValue)])
  /\ UNCHANGED << appVars, searchVars, inflight, outputVars, validatorVars,
                  mergeVars, normalizeVars, dateArg, socketVars, chatVars >>

callToDisplayDate ==
  /\ Len(dateCalls) < MaxDateCalls
  /\ dateCalls' = Append(dateCalls, [fn |-> "toDisplayDate",
                                     result |-> toDisplayDate(dateValue)])
  /\ UNCHANGED << appVars, searchVars, inflight, outputVars, validatorVars,
                  mergeVars, normalizeVars, dateArg, socketVars, chatVars >>

NextDate ==
  \/ callFormatDateForMonday
  \/ callToDisplayDate

SpecDate == InitDate /\ [][NextDate]_vars

mergeCalled == mergeOutput # nullObject

\* a missing value in the words of the specification
MissingValue(v) ==
  \/ v = << >>
  \/ toLowerCase(trim(v)) = <<"n","o","t"," ","f","o","u","n","d">>
  \/ toLowerCase(trim(v)) = <<"n","o","t"," ","p","r","o","v","i","d","e","d">>
  \/ toLowerCase(trim(v)) = toLowerCase(TAPEREDPLUS_ASSIGNMENT_TEXT)

\* equal up to case and surrounding whitespace
SameUpToCaseAndSpace(v, w) == toLowerCase(trim(v)) = toLowerCase(trim(w))

\* C1: mergeParameters(base, null) returns exactly the keys and values of
\* base, and a source map that tags every key of base 'Monday CRM'.
C1_NullOverlayReturnsBase ==
  (mergeCalled /\ mergeInput.email = nullObject) =>
     /\ mergeOutput.merged = mergeInput.monday
     /\ DOMAIN mergeOutput.sources = DOMAIN mergeInput.monday
     /\ \A k \in DOMAIN mergeInput.monday : mergeOutput.sources[k] = MondayCRM

C1_Witness ==
  /\ mergeCalled
  /\ mergeInput.email = nullObject
  /\ DOMAIN mergeInput.monday = MergeKeys

\* C2: for every key whose overlay value is missing (Email Subject
\* included) the merged set keeps the base value and the tag 'Monday CRM';
\* a key the base does not have is not added.
C2_MissingOverlayKeepsBase ==
  (mergeCalled /\ mergeInput.email # nullObject) =>
     \A k \in DOMAIN mergeInput.email :
        MissingValue(mergeInput.email[k]) =>
           IF k \in DOMAIN mergeInput.monday
           THEN /\ k \in DOMAIN mergeOutput.merged
                /\ mergeOutput.merged[k] = mergeInput.monday[k]
                /\ mergeOutput.sources[k] = MondayCRM
           ELSE /\ k \notin DOMAIN mergeOutput.merged
                /\ k \notin DOMAIN mergeOutput.sources

C2_Witness ==
  /\ mergeCalled
  /\ mergeInput.email # nullObject
  /\ \E k \in {"Email Subject", "Decking"} :
       /\ k \in DOMAIN mergeInput.email
       /\ k \in DOMAIN mergeInput.monday
       /\ mergeInput.email[k] = <<" ","N","O","T"," ","P","R","O","V","I","D","E","D"," ">>
       /\ mergeInput.monday[k] = <<"P","l","y">>
       /\ mergeOutput.merged[k] = <<"P","l","y">>

\* C3: for an overridable key other than Email Subject whose overlay value
\* is not missing, the overlay value replaces the base value and the key is
\* tagged 'Email Content' exactly when the two differ after trimming and
\* lowercasing; otherwise the base value and its 'Monday CRM' tag stay.
C3_OverlayWinsIffDiffers ==
  (mergeCalled /\ mergeInput.email # nullObject) =>
     \A k \in (DOMAIN mergeInput.email) \cap (overridableParameters \ {"Email Subject"}) :
        ~MissingValue(mergeInput.email[k]) =>
           IF /\ k \in DOMAIN mergeInput.monday
              /\ SameUpToCaseAndSpace(mergeInput.email[k], mergeInput.monday[k])
           THEN /\ mergeOutput.merged[k] = mergeInput.monday[k]
                /\ mergeOutput.sources[k] = MondayCRM
           ELSE /\ k \in DOMAIN mergeOutput.merged
                /\ mergeOutput.merged[k] = mergeInput.email[k]
                /\ mergeOutput.sources[k] = EmailContent

C3_Witness ==
  /\ mergeCalled
  /\ mergeInput.email # nullObject
  /\ "Decking" \in DOMAIN mergeInput.email
  /\ "Decking" \in DOMAIN mergeInput.monday
  /\ mergeInput.email["Decking"] = <<" ","P","L","Y"," ">>
  /\ mergeInput.monday["Decking"] = <<"P","l","y">>
  /\ mergeOutput.merged["Decking"] = <<"P","l","y">>
  /\ mergeOutput.sources["Decking"] = MondayCRM

\* C4: a key of base that is outside the overridable list, or that the
\* overlay does not hold, keeps its base value and the tag 'Monday CRM', and
\* the overlay adds no key outside the overridable list.
C4_OtherKeysUntouched ==
  (mergeCalled /\ mergeInput.email # nullObject) =>
     /\ \A k \in DOMAIN mergeInput.monday :
          (k \notin overridableParameters \/ k \notin DOMAIN mergeInput.email) =>
             /\ k \in DOMAIN mergeOutput.merged
             /\ mergeOutput.merged[k] = mergeInput.monday[k]
             /\ mergeOutput.sources[k] = MondayCRM
     /\ \A k \in DOMAIN mergeOutput.merged :
          k \notin overridableParameters => k \in DOMAIN mergeInput.monday

C4_Witness ==
  /\ mergeCalled
  /\ mergeInput.email # nullObject
  /\ "Drawing Reference" \in DOMAIN mergeInput.email
  /\ "Drawing Reference" \in DOMAIN mergeInput.monday
  /\ mergeInput.email["Drawing Reference"] = <<"M","e","t","a","l">>
  /\ mergeInput.monday["Drawing Reference"] = <<"P","l","y">>
  /\ mergeOutput.merged["Drawing Reference"] = <<"P","l","y">>

\* C5: an Email Subject of the overlay that is not missing is taken and
\* tagged 'Email Content', also when it equals the base value up to case
\* and whitespace.
C5_SubjectAlwaysFromEmail ==
  ( /\ mergeCalled
    /\ mergeInput.email # nullObject
    /\ "Email Subject" \in DOMAIN mergeInput.email
    /\ ~MissingValue(mergeInput.email["Email Subject"]) ) =>
          /\ "Email Subject" \in DOMAIN mergeOutput.merged
          /\ mergeOutput.merged["Email Subject"] = mergeInput.email["Email Subject"]
          /\ mergeOutput.sources["Email Subject"] = EmailContent

C5_Witness ==
  /\ mergeCalled
  /\ mergeInput.email # nullObject
  /\ "Email Subject" \in DOMAIN mergeInput.email
  /\ "Email Subject" \in DOMAIN mergeInput.monday
  /\ mergeInput.email["Email Subject"] = <<"p","l","y">>
  /\ mergeInput.monday["Email Subject"] = <<"P","l","y">>
  /\ mergeOutput.merged["Email Subject"] = <<"p","l","y">>

\* ------------------------------------------------------------------------
\* Properties of the session (checked under Spec)
\* ------------------------------------------------------------------------

\* C6: whenever the displayed parameter set is non-null, the provenance map
\* is non-null and has exactly the keys of the parameter set.
C6_EveryKeyHasOneTag ==
  extractedParams # nullObject =>
     /\ paramSources # nullObject
     /\ DOMAIN paramSources = DOMAIN extractedParams

\* an amendment is displayed in which the email added a key to the board's
C6_Witness ==
  /\ extractedParams # nullObject
  /\ enquiryType = Amendment
  /\ "Target U-Value" \in DOMAIN extractedParams
  /\ "Decking" \in DOMAIN extractedParams
  /\ paramSources["Decking"] = EmailContent
  /\ paramSources["Target U-Value"] = MondayCRM

\* C7: in every displayed parameter set 'Reason for Change' is 'New
\* Enquiry' or 'Amendment' and its provenance tag is 'Business Rule'.
C7_ReasonForChangeIsBusinessRule ==
  extractedParams # nullObject =>
     /\ "Reason for Change" \in DOMAIN extractedParams
     /\ extractedParams["Reason for Change"] \in {NewEnquiry, Amendment}
     /\ paramSources # nullObject
     /\ "Reason for Change" \in DOMAIN paramSources
     /\ paramSources["Reason for Change"] = BusinessRule

\* C8: in every parameter set of the new-enquiry path (the one whose
\* 'Reason for Change' is 'New Enquiry') 'Drawing Reference' and 'Revision'
\* are the deferral sentinel and are tagged 'Business Rule'.
C8_NewEnquiryDefersReferenceAndRevision ==
  ( /\ extractedParams # nullObject
    /\ Get(extractedParams, "Reason for Change") = NewEnquiry ) =>
       /\ Get(extractedParams, "Drawing Reference") = TAPEREDPLUS_ASSIGNMENT_TEXT
       /\ Get(extractedParams, "Revision") = TAPEREDPLUS_ASSIGNMENT_TEXT
       /\ paramSources # nullObject
       /\ Get(paramSources, "Drawing Reference") = BusinessRule
       /\ Get(paramSources, "Revision") = BusinessRule

\* the user continued as new and the service returned a drawing reference
\* and a revision of its own (the set that also holds an Email Subject)
C8_Witness ==
  /\ extractedParams # nullObject
  /\ Truthy(projectName)
  /\ enquiryType = NewEnquiry
  /\ "Email Subject" \in DOMAIN extractedParams
  /\ extractedParams["Revision"] = TAPEREDPLUS_ASSIGNMENT_TEXT
  /\ paramSources["Revision"] = BusinessRule

\* C9: a classification that has been set changes only by being cleared
\* (resetApp, or the reset at the start of an upload), never from one
\* classification to the other.
C9_ClassificationNeverFlips ==
  [][(enquiryType \in {NewEnquiry, Amendment})
        => (enquiryType' \in {enquiryType, null})]_vars

\* C10: at most one request of the session workflow is in flight.
C10_AtMostOneRequestInFlight == Len(inflight) <= 1

\* the state resetApp leaves: no parameter data, both panels hidden
SessionCleared ==
  /\ extractedParams = nullObject
  /\ paramSources = nullObject
  /\ emailParams = nullObject
  /\ extractedText = null
  /\ projectName = null
  /\ enquiryType = null
  /\ validatorParams = nullObject
  /\ originalEmailFile = null
  /\ ~showMondaySearch
  /\ ~showParameterValidator

\* C11: once the session is cleared and no upload is running, it stays
\* cleared until a new upload: no response of an earlier request sets
\* session state again.
C11_ClearedStaysCleared ==
  [][(SessionCleared /\ ~isProcessing) => SessionCleared']_vars

\* a step in which a response of the session workflow is taken
responseTaken ==
  \E i \in 1..Len(inflight) :
    SubSeq(inflight', 1, Len(inflight) - 1) = Remove(inflight, i)

\* a step whose catch block ran (each of them calls console.error)
callFailed == consoleErrors' # <<>>

\* C12: every failed collaborator call of App shows an alert, and the step
\* that handles the failure issues no request.
C12_FailuresShownAndNotFollowedUp ==
  [][ callFailed =>
        /\ alerts' # <<>>
        /\ responseTaken => Len(inflight') = Len(inflight) - 1 ]_vars

\* C13: while the project search is shown the classification stays unset
\* until Continue is pressed, and it becomes 'Amendment' only by Continue
\* with one of the candidate matches selected.
C13_ClassifiedOnlyByContinue ==
  [][ /\ (searchMounted /\ enquiryType = null /\ enquiryType' # null)
           => (handleContinueNone \/ handleContinueProject)
      /\ (enquiryType # Amendment /\ enquiryType' = Amendment)
           => /\ handleContinueProject
              /\ \E i \in 1..Len(searchResults.matches) :
                   searchResults.matches[i] = selectedProjectId ]_vars

\* C14: resetApp leaves no parameter data and hides both panels.
C14_ResetClearsSession ==
  [][resetApp => SessionCleared']_vars

\* reset while a request of the abandoned session is still pending
C14_Witness ==
  /\ SessionCleared
  /\ isLoadingResults
  /\ Len(inflight) > 0

\* C15: when an upload completes, the validator, if it is rendered, is
\* handed the parameter set of the new document.
C15_UploadReplacesValidatorParams ==
  [][ (isProcessing /\ ~isProcessing' /\ validatorMounted')
        => validatorExtractedParams' = extractedParams' ]_vars

\* record index of the validator holds the value of key, normalized
holdsNormalized(index, key) ==
  /\ parameters'[index].key = key
  /\ parameters'[index].editable
  /\ parameters'[index].value =
       cleanExtractedValue(OrElse(Get(validatorExtractedParams', key), << >>))

\* the projection effect runs in this step
projectionRuns ==
  /\ validatorMounted'
  /\ \/ ~validatorMounted
     \/ validatorExtractedParams' # validatorExtractedParams
     \/ enquiryType' # enquiryType

\* a record with the key Drawing Reference is among the records
hasDrawingReference ==
  \E i \in 1..Len(parameters) : parameters[i].key = "Drawing Reference"

\* C16: an edit in the validator leaves extractedParams, the validator
\* snapshot and the provenance map unchanged, and a submit puts the values
\* of the records, edited or not, into the create-item request (the date
\* in the format of the board).
C16_EditsReachOnlyTheRequest ==
  [][ /\ (\E index \in 1..Len(parameters), newValue \in EditValues :
             handleParameterChange(index, newValue))
           => UNCHANGED << extractedParams, validatorParams, paramSources >>
      /\ handleSubmit
           => \A i \in 1..Len(parameters) :
                submissions'[Len(submissions')].itemData
                    .column_values_by_title[parameters[i].mondayColumnTitle]
                  = IF parameters[i].key = "Date Received"
                    THEN formatDateForMonday(parameters[i].value)
                    ELSE parameters[i].value ]_vars

C16_Witness ==
  /\ Len(submissions) > 0
  /\ submissions[1].itemData.column_values_by_title["Zip Code"]
       = <<" ","N","1",",">>
  /\ submissions[1].itemData.column_values_by_title["Date Received"]
       = <<"2","0","2","4","-","1","2","-","3","1">>
  /\ Get(validatorExtractedParams, "Post Code") = <<" ","\"","N","1","\"",",">>

\* C17: the records of the validator start with Date Received, Hour
\* Received, Post Code (editable, holding the normalized value when the
\* projection has run) and the classification record (not editable,
\* holding the enquiry type), in this order, for either classification.
C17_FixedLeadingRecords ==
  [][ /\ validatorMounted' =>
           /\ Len(parameters') >= 4
           /\ parameters'[1].key = "Date Received" /\ parameters'[1].editable
           /\ parameters'[2].key = "Hour Received" /\ parameters'[2].editable
           /\ parameters'[3].key = "Post Code" /\ parameters'[3].editable
           /\ parameters'[4].key = "New Enq / Amend"
           /\ ~parameters'[4].editable
           /\ parameters'[4].value = OrElse(enquiryType', << >>)
      /\ projectionRuns =>
           /\ holdsNormalized(1, "Date Received")
           /\ holdsNormalized(2, "Hour Received")
           /\ holdsNormalized(3, "Post Code") ]_vars

C17_Witness ==
  /\ validatorMounted
  /\ enquiryType = Amendment
  /\ Get(validatorExtractedParams, "Post Code") = <<" ","\"","N","1","\"",",">>
  /\ parameters[3].value = <<"N","1">>
  /\ parameters[4].value = Amendment

\* C18: for an amendment the records hold a Drawing Reference record
\* exactly when the drawing reference, normalized and cut at the first
\* underscore, is not empty and not a missing value; the record holds the
\* cut value and is not editable.
C18_DrawingReferenceUnlessMissing ==
  (validatorMounted /\ enquiryType = Amendment) =>
    LET tpRef == splitFirst(cleanExtractedValue(
                   Get(validatorExtractedParams, "Drawing Reference")))
    IN  /\ hasDrawingReference <=> ~MissingValue(tpRef)
        /\ \A i \in 1..Len(parameters) :
             parameters[i].key = "Drawing Reference" =>
               parameters[i].value = tpRef /\ ~parameters[i].editable

\* C19: for a new enquiry the records hold no Drawing Reference record.
C19_NewEnquiryHasNoDrawingReference ==
  (validatorMounted /\ enquiryType = NewEnquiry) => ~hasDrawingReference

C19_Witness ==
  /\ validatorMounted
  /\ enquiryType = NewEnquiry
  /\ validatorParams = extractedParams
  /\ Get(validatorExtractedParams, "Drawing Reference")
       = TAPEREDPLUS_ASSIGNMENT_TEXT
  /\ Len(parameters) = 4

\* C20: cleanExtractedValue is idempotent: applied to its own result it
\* returns that result.
C20_NormalizeIsIdempotent ==
  Len(normalizeResults) >= 2 => normalizeResults[2] = normalizeResults[1]

\* digits, a colon, digits and nothing else
TimeLike(s) ==
  \E k \in 2..(Len(s) - 1) :
    /\ s[k] = ":"
    /\ \A i \in (1..Len(s)) \ {k} : s[i] \in Digits

\* digits, a colon and a digit at the start of s
StartsTimeLike(s) ==
  \E k \in 2..(Len(s) - 1) :
    /\ s[k] = ":"
    /\ s[k + 1] \in Digits
    /\ \A i \in 1..(k - 1) : s[i] \in Digits

\* C21: cleanExtractedValue returns a value made of digits, a colon and
\* digits unchanged, and a value that starts with digits, a colon and a
\* digit is never cut at its leading colon pattern: its result is that of
\* the quoted rule or of the stripping of quotes, white space and commas.
C21_TimeLikeValuesKept ==
  Len(normalizeResults) >= 1 =>
    /\ TimeLike(normalizeArg) => normalizeResults[1] = normalizeArg
    /\ StartsTimeLike(normalizeArg) =>
         normalizeResults[1] =
           IF quotedMatch(normalizeArg) # null
           THEN trim(quotedMatch(normalizeArg))
           ELSE stripEnd(stripStart(normalizeArg))

\* cleanExtractedValue was called on "1:1" and returned it
C21_Witness ==
  /\ normalizeArg = <<"1", ":", "1">>
  /\ Len(normalizeResults) >= 1
  /\ normalizeResults[1] = <<"1", ":", "1">>

\* DD<sep>MM<sep>YYYY, all digits
DayFirstForm(s, sep) ==
  /\ Len(s) = 10
  /\ \A i \in {1, 2, 4, 5, 7, 8, 9, 10} : s[i] \in Digits
  /\ s[3] = sep
  /\ s[6] = sep

\* YYYY-MM-DD, all digits
StorageForm(s) ==
  /\ Len(s) = 10
  /\ \A i \in {1, 2, 3, 4, 6, 7, 9, 10} : s[i] \in Digits
  /\ s[5] = "-"
  /\ s[8] = "-"

\* C22: formatDateForMonday maps DD/MM/YYYY and DD-MM-YYYY to YYYY-MM-DD
\* with the same day, month and year digits and returns every other string
\* (a string in the form YYYY-MM-DD among them) unchanged.
C22_StorageDateOfEveryString ==
  ( /\ dateCalls # << >>
    /\ dateCalls[1].fn = "formatDateForMonday" ) =>
      dateCalls[1].result =
        IF DayFirstForm(dateArg, "/") \/ DayFirstForm(dateArg, "-")
        THEN <<dateArg[7], dateArg[8], dateArg[9], dateArg[10], "-",
               dateArg[4], dateArg[5], "-", dateArg[1], dateArg[2]>>
        ELSE dateArg

\* C23: for a string in the form YYYY-MM-DD, formatDateForMonday of
\* toDisplayDate of formatDateForMonday of it is formatDateForMonday of it.
C23_DatesRoundTrip ==
  ( /\ StorageForm(dateArg)
    /\ Len(dateCalls) = 3
    /\ dateCalls[1].fn = "formatDateForMonday"
    /\ dateCalls[2].fn = "toDisplayDate"
    /\ dateCalls[3].fn = "formatDateForMonday" ) =>
      dateCalls[3].result = dateCalls[1].result

\* 2024-31-01 was stored, displayed as 01/31/2024 and stored again
C23_Witness ==
  /\ dateArg = <<"2", "0", "2", "4", "-", "3", "1", "-", "0", "1">>
  /\ Len(dateCalls) = 3
  /\ dateCalls[1].fn = "formatDateForMonday"
  /\ dateCalls[2].fn = "toDisplayDate"
  /\ dateCalls[2].result = <<"0", "1", "/", "3", "1", "/", "2", "0", "2", "4">>
  /\ dateCalls[3].fn = "formatDateForMonday"
  /\ dateCalls[3].result = dateArg

\* the socket of the mounted hook was closed by the transport while its
\* job id is the one the component still passes
connectionLost ==
  /\ hookMounted
  /\ Truthy(jobId)
  /\ socketRef # 0
  /\ sockets[socketRef].jobId = jobId
  /\ sockets[socketRef].reason \in {"transport close", "transport error"}

\* a socket of the job is connected and in the job's room
rejoined ==
  \E i \in 1..Len(sockets) :
    /\ sockets[i].jobId = jobId
    /\ sockets[i].status = "connected"
    /\ sockets[i].joined

\* C24: after the socket was closed by the transport ('transport close' or
\* 'transport error') while the job id is set, a socket of the job is
\* eventually connected and in the job's room again, unless the component
\* stops asking for the job (another job id, null, or unmounted).  Stated
\* for the states in which io() can still be called within MaxSockets, so
\* that a hook that stops does so by its code and not by the bound.
C24_ReconnectsAfterTransportLoss ==
  (connectionLost /\ Len(sockets) < MaxSockets)
    ~> (rejoined \/ ~connectionLost)

\* C25: every connected socket is the socket of the mounted hook and was
\* created for the job id the component passes now: no socket of an
\* earlier job, and no socket of an unmounted component, is or becomes
\* connected.
C25_OnlyTheCurrentSocketConnected ==
  \A i \in 1..Len(sockets) :
    sockets[i].status = "connected" =>
      /\ hookMounted
      /\ socketRef = i
      /\ sockets[i].jobId = jobId

\* C26: whenever showParameterValidator is true, extractedParams is not
\* null, no results request is loading and the project search is hidden.
C26_ValidatorOnlyWithLoadedResults ==
  showParameterValidator =>
    /\ extractedParams # nullObject
    /\ ~isLoadingResults
    /\ ~showMondaySearch

\* C27: whenever results are displayed (extractedParams not null and
\* isLoadingResults false), their 'Reason for Change' is the enquiryType.
C27_ReasonForChangeIsEnquiryType ==
  (extractedParams # nullObject /\ ~isLoadingResults) =>
    Get(extractedParams, "Reason for Change") = enquiryType

\* a board record fetch or a re-processing request has not completed
resultsRequestInFlight ==
  \E i \in 1..Len(inflight) : inflight[i].kind \in {"project", "reprocess"}

\* C28: isLoadingResults is true exactly while a board record fetch or a
\* re-processing request is in flight.
C28_LoadingIffRequestInFlight ==
  isLoadingResults <=> resultsRequestInFlight

C30_ChatHistoryAlternates ==
  /\ \A k \in 1..Len(chatHistory) :
       chatHistory[k].role = IF k % 2 = 1 THEN "user" ELSE "assistant"
  /\ Len(chatRequests) <= 1
  /\ chatRequests = << >> => Len(chatHistory) % 2 = 0

====
